---------------------------- MODULE Spec2Model ----------------------------
(***************************************************************************)
(* Confidence-region geometry and dominance/covering engine of VectOptAL.  *)
(*                                                                         *)
(* Three specifications share the variables of this module:                *)
(*   SpecRegion  a RectangularConfidenceRegion from its constructor on,    *)
(*               mutated by update (confidence_region.py 43-130);          *)
(*   SpecGeom    the pure geometric predicates, applied to inputs drawn    *)
(*               in the initial state (utils.py 282-398,                   *)
(*               confidence_region.py 132-193);                            *)
(*   SpecSolve   the predicates that go through the conic solver, one      *)
(*               action per solver invocation (confidence_region.py        *)
(*               195-243, 301-357, 385-437).                               *)
(*                                                                         *)
(* Numbers are integers: every comparison the code makes on floats is made *)
(* here in exact arithmetic (the interpolation of                          *)
(* line_seg_pt_intersect_at_dim by cross-multiplication).                  *)
(***************************************************************************)
EXTENDS Integers, Sequences, FiniteSets

(***************************************************************************)
(* Bounds of the model.                                                    *)
(***************************************************************************)
\* dimension of the objective space (the constructor's dim)
Dim == 2
\* update: mean[i] in 0..MaxMean
MaxMean == 1
\* update: sqrt of a diagonal entry of the covariance, in 0..MaxStd
MaxStd == 1
\* update: scale in -1..MaxScale (a negative scale is outside the
\* precondition of the claims and is kept to show that it matters)
MaxScale == 1
\* coordinates of the boxes handed to the predicates, in 0..MaxCoord
MaxCoord == 1
\* slackness entries, in -1..MaxSlack
MaxSlack == 1

\* The source's "magic large number" 1e12 (confidence_region.py 63-64), scaled
\* to the integers of the model checker: all that matters of it is that it
\* exceeds every bound an update can produce.
BIG == 1000000

None == "None"

Dims == 1..Dim

(***************************************************************************)
(* numpy helpers                                                           *)
(***************************************************************************)
Max2(a, b) == IF a >= b THEN a ELSE b
Min2(a, b) == IF a <= b THEN a ELSE b

\* np.maximum / np.minimum, elementwise
np_maximum(x, y) == [i \in DOMAIN x |-> Max2(x[i], y[i])]
np_minimum(x, y) == [i \in DOMAIN x |-> Min2(x[i], y[i])]

\* np.sqrt on the perfect squares the model draws covariances from
np_sqrt(v) == CHOOSE r \in 0..v : r * r = v

\* the inner product of two vectors of one length
RECURSIVE DotFrom(_, _, _)
DotFrom(x, y, i) == IF i > Len(x) THEN 0 ELSE x[i] * y[i] + DotFrom(x, y, i + 1)
Dot(x, y) == DotFrom(x, y, 1)

\* M @ x for a matrix given as the sequence of its rows
MatVec(M, x) == [r \in 1..Len(M) |-> Dot(M[r], x)]

\* A slackness is an array: a scalar is an array of size 1 (np.array(s).size),
\* which numpy broadcasts against a vector.
Size(s) == Len(s)
Broadcast(s, n) == IF Size(s) = 1 THEN [i \in 1..n |-> s[1]] ELSE s

(***************************************************************************)
(* utils.py: hyperrectangle primitives                                     *)
(***************************************************************************)
\* A plausible slip: only the first of the two tests is made.
hyperrectangle_check_intersection_one_sided(lower1, upper1, lower2, upper2) ==
    ~ (\E i \in DOMAIN lower1 : lower1[i] >= upper2[i])

\* if np.any(lower1 >= upper2) or np.any(upper1 <= lower2): return False
hyperrectangle_check_intersection(lower1, upper1, lower2, upper2) ==
    ~ (  (\E i \in DOMAIN lower1 : lower1[i] >= upper2[i])
      \/ (\E i \in DOMAIN lower1 : upper1[i] <= lower2[i]) )

(***************************************************************************)
(* RectangularConfidenceRegion: constructor, update, intersect             *)
(***************************************************************************)
\* A plausible slip: intersect without the replace-on-disjoint branch.
intersect_always(lo, up, L, U) ==
    [lower |-> np_maximum(lo, L), upper |-> np_minimum(up, U)]

\* A plausible slip: on an overlap the hull of the two boxes is kept.
intersect_hull(lo, up, L, U) ==
    IF hyperrectangle_check_intersection(lo, up, L, U)
    THEN [lower |-> np_minimum(lo, L), upper |-> np_maximum(up, U)]
    ELSE [lower |-> L, upper |-> U]

\* RectangularConfidenceRegion.intersect: the region after intersecting the
\* region (lo, up) with the incoming box (L, U).
intersect(lo, up, L, U) ==
    IF hyperrectangle_check_intersection(lo, up, L, U)
    THEN [lower |-> np_maximum(lo, L), upper |-> np_minimum(up, U)]
    ELSE [lower |-> L, upper |-> U]

\* L and U of update: mean -/+ sqrt(diag(covariance)) * scale
update_L(mean, diag, scale) == [i \in DOMAIN mean |-> mean[i] - np_sqrt(diag[i]) * scale]
update_U(mean, diag, scale) == [i \in DOMAIN mean |-> mean[i] + np_sqrt(diag[i]) * scale]

VARIABLES
    \* SpecRegion: the region object
    lower, upper, intersect_iteratively,
    \* SpecRegion: the last call on it: its name, the L and U it computed, the
    \* error it raised, and whether every update so far had scale >= 0
    op, argL, argU, err, pre

regionVars == <<lower, upper, intersect_iteratively, op, argL, argU, err, pre>>

VARIABLES
    \* the arguments of a predicate: two regions, the cone matrix of the
    \* order, the slackness
    obj1, obj2, cone, slackness,
    \* the predicate called (None before the call) and its outcome: the value
    \* returned, the error raised instead (None: it returned), and the number
    \* of loop iterations it made
    fn, ret

geomVars == <<obj1, obj2, cone, slackness, fn, ret>>

VARIABLES
    \* SpecSolve: where the predicate stands ("ready", "primary", "fallback",
    \* "done", "raised") and the cone row whose problem is being solved
    pc, row,
    \* SpecSolve: the last solver invocation [solver, outcome, row], the number
    \* of invocations made for the current problem and in the whole call
    last, nsolves, total,
    \* SpecSolve: what is true of the ellipsoid problems handed to the solver:
    \* whether the constraints are feasible and the minimum of each row's
    \* objective
    oracle

solveVars == <<pc, row, last, nsolves, total, oracle>>

VARIABLES
    \* an EllipsoidalConfidenceRegion object (None where the specification has
    \* none)
    center, sigma, alpha

ellVars == <<center, sigma, alpha>>

VARIABLES
    \* the arguments of the last call of a constructor, an update or a utility
    \* function, and its outcome: whether it was made, the value it returned
    \* and the error it raised instead (None: it returned)
    args, out

callVars == <<args, out>>

VARIABLES
    \* an EmpiricalMeanVarModel object: its design_count and its sample
    \* containers, one sequence of sample rows per design (None and 0 where
    \* the specification has no such object)
    design_samples, design_count

storeVars == <<design_samples, design_count>>

NoOut == [done |-> FALSE, val |-> None, raised |-> None]

EllIdle == center = None /\ sigma = None /\ alpha = None
CallIdle == args = None /\ out = NoOut
StoreIdle == design_samples = None /\ design_count = 0

NoLast == [solver |-> None, outcome |-> None, row |-> 0]
NoOracle == [feasible |-> TRUE, optimum |-> <<>>]
SolveIdle ==
    /\ pc = "ready" /\ row = 0 /\ last = NoLast /\ nsolves = 0 /\ total = 0
    /\ oracle = NoOracle

NoRet == [val |-> FALSE, raised |-> None, checked |-> 0]

\* inputs of update
MeanVecs == [Dims -> 0..MaxMean]
DiagVecs == [Dims -> {s * s : s \in 0..MaxStd}]
Scales == -1..MaxScale
\* explicit bounds the constructor accepts: len = dim and lower <= upper
CtorBounds == {b \in [lower : [Dims -> 0..MaxMean], upper : [Dims -> 0..MaxMean]] :
                  \A i \in Dims : b.lower[i] <= b.upper[i]}

\* RectangularConfidenceRegion.__init__, default bounds or accepted explicit ones
RegionInit ==
    /\ intersect_iteratively \in BOOLEAN
    /\ \/ /\ lower = [i \in Dims |-> -BIG]
          /\ upper = [i \in Dims |-> BIG]
       \/ \E b \in CtorBounds : lower = b.lower /\ upper = b.upper
    /\ op = "init"
    /\ argL = None
    /\ argU = None
    /\ err = None
    /\ pre = TRUE
    /\ obj1 = None /\ obj2 = None /\ cone = None /\ slackness = None
    /\ fn = None /\ ret = NoRet
    /\ SolveIdle
    /\ EllIdle
    /\ StoreIdle
    /\ CallIdle

\* RectangularConfidenceRegion.update with a square covariance
Update(mean, diag, scale) ==
    LET L == update_L(mean, diag, scale)
        U == update_U(mean, diag, scale)
        r == IF intersect_iteratively THEN intersect(lower, upper, L, U)
             ELSE [lower |-> L, upper |-> U]
    IN  /\ lower' = r.lower
        /\ upper' = r.upper
        /\ op' = "update"
        /\ argL' = L
        /\ argU' = U
        /\ err' = None
        /\ pre' = (pre /\ scale >= 0)
        /\ UNCHANGED intersect_iteratively
        /\ UNCHANGED <<geomVars, solveVars, ellVars, callVars, storeVars>>

\* RectangularConfidenceRegion.update with a covariance that is not square:
\* raises before anything is assigned
UpdateNotSquare ==
    /\ op' = "update"
    /\ argL' = None
    /\ argU' = None
    /\ err' = "AssertionError"
    /\ UNCHANGED <<lower, upper, intersect_iteratively, pre>>
    /\ UNCHANGED <<geomVars, solveVars, ellVars, callVars, storeVars>>

RegionNext ==
    \/ \E mean \in MeanVecs, diag \in DiagVecs, scale \in Scales : Update(mean, diag, scale)
    \/ UpdateNotSquare

(***************************************************************************)
(* utils.py: vertices, extended polytope                                   *)
(***************************************************************************)
\* itertools.product(*a): the first list varies slowest
RECURSIVE product(_)
product(a) ==
    IF a = <<>> THEN << <<>> >>
    ELSE LET rest == product(Tail(a))
             with(x) == [k \in 1..Len(rest) |-> <<x>> \o rest[k]]
         IN  with(Head(a)[1]) \o with(Head(a)[2])

\* A plausible slip: only the two extreme corners are enumerated.
hyperrectangle_get_vertices_corners(lo, up) == <<lo, up>>

\* A plausible slip: the last dimension varies slowest.
hyperrectangle_get_vertices_last_slowest(lo, up) ==
    LET D == Len(lo)
        rev == product([i \in 1..D |-> <<lo[D + 1 - i], up[D + 1 - i]>>])
    IN  [k \in 1..Len(rev) |-> [i \in 1..D |-> rev[k][D + 1 - i]]]

\* hyperrectangle_get_vertices: a = [[l, u] for l, u in zip(lower, upper)],
\* then the rows of itertools.product(*a)
hyperrectangle_get_vertices(lo, up) ==
    product([i \in 1..Len(lo) |-> <<lo[i], up[i]>>])

\* line_seg_pt_intersect_at_dim.  t = a / b is kept as the pair (a, b); the
\* point P1 + t * (P2 - P1) is returned as [is |-> "point", num, den], standing
\* for the coordinates num[k] / den.  A zero denominator follows numpy's float
\* division: x/0 is +-inf, which fails "t < 0 or t > 1" and returns None; 0/0 is
\* nan, which passes both comparisons and makes every coordinate of the
\* returned point nan (is = "nan").
line_seg_pt_intersect_at_dim(P1, P2, target_pt, target_dim) ==
    LET a == target_pt[target_dim] - P1[target_dim]
        b == P2[target_dim] - P1[target_dim]
        zeros == [k \in 1..Len(P1) |-> 0]
    IN  IF b = 0
        THEN IF a = 0 THEN [is |-> "nan", num |-> zeros, den |-> 1]
                      ELSE [is |-> "None", num |-> zeros, den |-> 1]
        ELSE IF a * b < 0 \/ a * b > b * b
             THEN [is |-> "None", num |-> zeros, den |-> 1]
             ELSE [is |-> "point",
                   num |-> [k \in 1..Len(P1) |-> P1[k] * b + a * (P2[k] - P1[k])],
                   den |-> b]

\* comp_func(x, y) of is_pt_in_extended_polytope on two numbers
comp_func(invert_extension, x, y) == IF invert_extension THEN x >= y ELSE x <= y

\* comp_func(intersection, pt).all() for an interpolated point; every
\* comparison with nan is false
comp_func_point(invert_extension, x, pt) ==
    /\ x.is # "nan"
    /\ \A k \in 1..Len(pt) :
          IF x.den > 0
          THEN comp_func(invert_extension, x.num[k], pt[k] * x.den)
          ELSE comp_func(invert_extension, pt[k] * x.den, x.num[k])

\* is_pt_in_extended_polytope: a vertex that compares with pt in every
\* coordinate, or, for some dimension, an ordered pair of distinct vertices
\* straddling pt in that dimension whose interpolated point does
is_pt_in_extended_polytope(pt, polytope, invert_extension) ==
    LET dim == Len(polytope[1])
    IN  \/ \E v \in 1..Len(polytope) :
              \A k \in 1..dim : comp_func(invert_extension, polytope[v][k], pt[k])
        \/ \E dim_i \in 1..dim : \E vert_i \in 1..Len(polytope), vert_j \in 1..Len(polytope) :
              /\ vert_i # vert_j
              /\ polytope[vert_i][dim_i] <= pt[dim_i]
              /\ pt[dim_i] <= polytope[vert_j][dim_i]
              /\ LET x == line_seg_pt_intersect_at_dim(polytope[vert_i], polytope[vert_j],
                                                       pt, dim_i)
                 IN  x.is # "None" /\ comp_func_point(invert_extension, x, pt)

(***************************************************************************)
(* Order: the ordering is given by its cone matrix W (order.ordering_cone.W)*)
(***************************************************************************)
VecAdd(x, y) == [i \in 1..Len(x) |-> x[i] + y[i]]
VecSub(x, y) == [i \in 1..Len(x) |-> x[i] - y[i]]

\* Order.dominates(a, b): W (a - b) >= 0 in every row
dominates(W, a, b) == \A r \in 1..Len(W) : Dot(W[r], VecSub(a, b)) >= 0

(***************************************************************************)
(* RectangularConfidenceRegion: is_dominated, check_dominates              *)
(***************************************************************************)
\* the two nested loops of is_dominated from the k-th pair on (k pairs were
\* checked and passed): the result and the number of pairs checked
RECURSIVE is_dominated_loop(_, _, _, _, _)
is_dominated_loop(W, verts1, verts2, slack, k) ==
    IF k = Len(verts1) * Len(verts2)
    THEN [val |-> TRUE, raised |-> None, checked |-> k]
    ELSE LET vert1 == verts1[(k \div Len(verts2)) + 1]
             vert2 == verts2[(k % Len(verts2)) + 1]
         IN  IF ~ dominates(W, VecAdd(vert2, Broadcast(slack, Len(vert2))), vert1)
             THEN [val |-> FALSE, raised |-> None, checked |-> k + 1]
             ELSE is_dominated_loop(W, verts1, verts2, slack, k + 1)

\* RectangularConfidenceRegion.is_dominated
Rect_is_dominated(W, o1, o2, slack) ==
    IF ~ (Size(slack) = 1 \/ Size(slack) = Len(o1.lower))
    THEN [val |-> FALSE, raised |-> "AssertionError", checked |-> 0]
    ELSE is_dominated_loop(W, hyperrectangle_get_vertices(o1.lower, o1.upper),
                           hyperrectangle_get_vertices(o2.lower, o2.upper), slack, 0)

\* the loop of check_dominates from the k-th vertex of verts1 on
RECURSIVE check_dominates_loop(_, _, _)
check_dominates_loop(verts1, verts2, k) ==
    IF k = Len(verts1)
    THEN [val |-> TRUE, raised |-> None, checked |-> k]
    ELSE IF is_pt_in_extended_polytope(verts1[k + 1], verts2, FALSE) = FALSE
         THEN [val |-> FALSE, raised |-> None, checked |-> k + 1]
         ELSE check_dominates_loop(verts1, verts2, k + 1)

\* hyperrectangle_get_vertices(lower, upper) @ cone_matrix.transpose()
cone_vertices(W, o) ==
    LET verts == hyperrectangle_get_vertices(o.lower, o.upper)
    IN  [k \in 1..Len(verts) |-> MatVec(W, verts[k])]

\* A plausible slip: the slack shifts the second region's vertices.
Rect_check_dominates_slack(W, o1, o2, slack) ==
    check_dominates_loop(cone_vertices(W, o1),
        cone_vertices(W, [lower |-> VecAdd(o2.lower, Broadcast(slack, Len(o2.lower))),
                          upper |-> VecAdd(o2.upper, Broadcast(slack, Len(o2.upper)))]), 0)

\* RectangularConfidenceRegion.check_dominates; the slack is not used
Rect_check_dominates(W, o1, o2, slack) ==
    check_dominates_loop(cone_vertices(W, o1), cone_vertices(W, o2), 0)

(***************************************************************************)
(* Inputs of the predicates                                                *)
(***************************************************************************)

\* hyperrectangles with lower <= upper
Boxes == {b \in [lower : [Dims -> 0..MaxCoord], upper : [Dims -> 0..MaxCoord]] :
             \A i \in Dims : b.lower[i] <= b.upper[i]}

\* cone matrices, one row per constraint: the componentwise order, an obtuse
\* cone, an acute cone, and the componentwise order with a redundant row
ConeIdentity == [r \in Dims |-> [c \in Dims |-> IF r = c THEN 1 ELSE 0]]
ConeObtuse == [r \in Dims |-> [c \in Dims |-> IF c <= r THEN 1 ELSE 0]]
ConeAcute == [r \in Dims |-> [c \in Dims |-> IF r = c THEN 1 ELSE IF c = r - 1 THEN -1 ELSE 0]]
ConeExtraRow == [r \in 1..(Dim + 1) |-> [c \in Dims |-> IF r = c \/ r = Dim + 1 THEN 1 ELSE 0]]
Cones == {ConeIdentity, ConeObtuse, ConeAcute, ConeExtraRow}

\* a scalar, a vector of one entry per dimension, or a vector that is too long
SlackVals == -1..MaxSlack
Slacks == [1..1 -> SlackVals] \cup [Dims -> SlackVals] \cup {[i \in 1..(Dim + 2) |-> 0]}

\* the arguments of one call of a predicate; the region object is not used
GeomInit ==
    /\ obj1 \in Boxes
    /\ obj2 \in Boxes
    /\ cone \in Cones
    /\ slackness \in Slacks
    /\ fn = None
    /\ ret = NoRet
    /\ intersect_iteratively = FALSE
    /\ lower = [i \in Dims |-> -BIG]
    /\ upper = [i \in Dims |-> BIG]
    /\ op = "init" /\ argL = None /\ argU = None /\ err = None /\ pre = TRUE
    /\ SolveIdle
    /\ EllIdle
    /\ StoreIdle
    /\ CallIdle

\* hyperrectangle_check_intersection(obj1.lower, obj1.upper, obj2.lower, obj2.upper)
CallCheckIntersection ==
    /\ fn = None
    /\ fn' = "hyperrectangle_check_intersection"
    /\ ret' = [val |-> hyperrectangle_check_intersection(obj1.lower, obj1.upper,
                                                          obj2.lower, obj2.upper),
               raised |-> None, checked |-> 0]
    /\ UNCHANGED <<obj1, obj2, cone, slackness>>
    /\ UNCHANGED <<regionVars, solveVars, ellVars, callVars, storeVars>>

\* RectangularConfidenceRegion.is_dominated(order, obj1, obj2, slackness)
CallIsDominated ==
    /\ fn = None
    /\ fn' = "Rect_is_dominated"
    /\ ret' = Rect_is_dominated(cone, obj1, obj2, slackness)
    /\ UNCHANGED <<obj1, obj2, cone, slackness>>
    /\ UNCHANGED <<regionVars, solveVars, ellVars, callVars, storeVars>>

\* RectangularConfidenceRegion.check_dominates(order, obj1, obj2, slackness)
CallCheckDominates ==
    /\ fn = None
    /\ fn' = "Rect_check_dominates"
    /\ ret' = Rect_check_dominates(cone, obj1, obj2, slackness)
    /\ UNCHANGED <<obj1, obj2, cone, slackness>>
    /\ UNCHANGED <<regionVars, solveVars, ellVars, callVars, storeVars>>

GeomNext ==
    \/ CallCheckIntersection
    \/ CallIsDominated
    \/ CallCheckDominates

(***************************************************************************)
(* The conic solver (cvxpy), as the predicates see it                      *)
(***************************************************************************)
\* bound on the minimum of a row's objective over the two ellipsoids, which
\* lies in -1..MaxOpt
MaxOpt == 1

\* What one solver invocation does: it raises cp.error.SolverError, raises
\* some other error, or returns and leaves a status in prob.status.  A solver
\* that returns an accurate status decides the problem exactly; it may also
\* return an inaccurate status or none at all.
Raises == {"SolverError", "Error"}
Outcomes(feasible) ==
    Raises \cup {"None"}
           \cup (IF feasible THEN {"optimal", "optimal_inaccurate"}
                             ELSE {"infeasible", "infeasible_inaccurate"})

\* prob.value after a solve of a minimisation whose minimum is opt: the
\* optimal value, +inf for an infeasible problem, None without a status
prob_value(status, opt) ==
    IF status \in {"optimal", "optimal_inaccurate"} THEN [kind |-> "num", num |-> opt]
    ELSE IF status \in {"infeasible", "infeasible_inaccurate"} THEN [kind |-> "inf", num |-> 0]
    ELSE [kind |-> "None", num |-> 0]

\* A plausible slip: the fallback is tried after any error of the primary.
except_SolverError_any(outcome) == outcome \in Raises

\* try: prob.solve()  except cp.error.SolverError: prob.solve(solver=cp.SCS)
\* the error of the primary solve that the except clause catches
except_SolverError(outcome) == outcome = "SolverError"

(***************************************************************************)
(* RectangularConfidenceRegion.is_covered                                  *)
(***************************************************************************)
\* A plausible slip: the upper bounds enter the boundary without the sign.
hyperrectangle_get_region_matrix_unsigned(lo, up) ==
    LET dim == Len(lo)
    IN  [region_matrix |-> [r \in 1..(2 * dim) |-> [c \in 1..dim |->
                               IF r = c THEN 1 ELSE IF r = c + dim THEN -1 ELSE 0]],
         region_boundary |-> [r \in 1..(2 * dim) |-> IF r <= dim THEN lo[r] ELSE up[r - dim]]]

\* A plausible slip: the boundary is stacked as (-upper, lower).
hyperrectangle_get_region_matrix_swapped(lo, up) ==
    LET dim == Len(lo)
    IN  [region_matrix |-> [r \in 1..(2 * dim) |-> [c \in 1..dim |->
                               IF r = c THEN 1 ELSE IF r = c + dim THEN -1 ELSE 0]],
         region_boundary |-> [r \in 1..(2 * dim) |-> IF r <= dim THEN -up[r] ELSE lo[r - dim]]]

\* hyperrectangle_get_region_matrix: vstack(eye, -eye) and hstack(lower, -upper)
hyperrectangle_get_region_matrix(lo, up) ==
    LET dim == Len(lo)
    IN  [region_matrix |-> [r \in 1..(2 * dim) |-> [c \in 1..dim |->
                               IF r = c THEN 1 ELSE IF r = c + dim THEN -1 ELSE 0]],
         region_boundary |-> [r \in 1..(2 * dim) |-> IF r <= dim THEN lo[r] ELSE -up[r - dim]]]

\* The variables of the linear program are searched on the grid of the halves:
\* a grid coordinate g stands for g / 2.  With integer bounds and slackness and
\* cone entries in {-1, 0, 1} the program is feasible over the reals iff it is
\* on this grid.
HalfGrid == (-1)..(2 * MaxCoord + 1)

GeqAll(x, y) == \A i \in 1..Len(x) : x[i] >= y[i]

\* obj_matrix @ z >= obj_boundary, at z = g / 2
region_constraint(obj_matrix, obj_boundary, g) ==
    \A r \in 1..Len(obj_matrix) : Dot(obj_matrix[r], g) >= 2 * obj_boundary[r]

\* cone_matrix @ (z_point2 - z_point - slackness) >= 0, at z = g / 2
cone_constraint(W, slack, g1, g2) ==
    LET m == Len(W[1])
        s == Broadcast(slack, m)
    IN  \A r \in 1..Len(W) : Dot(W[r], [i \in 1..m |-> g2[i] - g1[i] - 2 * s[i]]) >= 0

\* the three constraints of is_covered have a common solution
Rect_is_covered_feasible(W, o1, o2, slack) ==
    LET m == Len(W[1])
        rm1 == hyperrectangle_get_region_matrix(o1.lower, o1.upper)
        rm2 == hyperrectangle_get_region_matrix(o2.lower, o2.upper)
        in1 == {g \in [1..m -> HalfGrid] :
                   region_constraint(rm1.region_matrix, rm1.region_boundary, g)}
        in2 == {g \in [1..m -> HalfGrid] :
                   region_constraint(rm2.region_matrix, rm2.region_boundary, g)}
    IN  \E g1 \in in1 : \E g2 \in in2 : cone_constraint(W, slack, g1, g2)

\* if prob.status is None: return True;  return prob.status == "optimal"
Rect_is_covered_return(status) ==
    [val |-> IF status = "None" THEN TRUE ELSE status = "optimal",
     raised |-> None, checked |-> 1]

(***************************************************************************)
(* EllipsoidalConfidenceRegion.is_covered, is_dominated                    *)
(***************************************************************************)
\* "infeasible" in prob.status: a substring test on a status string
infeasible_in(status) == status \in {"infeasible", "infeasible_inaccurate"}

\* if "infeasible" in prob.status: return False  else: return True
\* (the test raises TypeError when prob.status is None)
Ell_is_covered_return(status) ==
    IF status = "None"
    THEN [val |-> FALSE, raised |-> "TypeError", checked |-> 1]
    ELSE [val |-> ~ infeasible_in(status), raised |-> None, checked |-> 1]

\* A plausible slip: the slackness enters the test without the sign.
row_fails_unsigned(value, slack_n) == value.kind = "num" /\ value.num < slack_n

\* prob.value < -slackness[n]; +inf is below nothing
row_fails(value, slack_n) == value.kind = "num" /\ value.num < - slack_n

\* the assertion on the slackness a predicate makes before it builds a problem
slackness_ok(f, W, slack) ==
    IF f = "Rect_is_covered"
    THEN Size(slack) = 1 \/ Size(slack) = Len(W[1])
    ELSE Size(slack) = 1 \/ Size(slack) = Len(W)

(***************************************************************************)
(* One call of a predicate that solves                                     *)
(***************************************************************************)
OptVals == -1..MaxOpt

EllSlacks(W) == [1..1 -> SlackVals] \cup [1..Len(W) -> SlackVals]
                   \cup {[i \in 1..(Dim + 2) |-> 0]}

\* the boxes whose lower corner is the origin
AnchoredBoxes == {b \in Boxes : \A i \in Dims : b.lower[i] = 0}

\* the arguments of one call; the ellipsoids are given by what is true of the
\* problems built from them, and the first box of is_covered is anchored at
\* the origin (the second one is any box)
SolveInit ==
    /\ cone \in Cones
    /\ \/ /\ fn = "Rect_is_covered"
          /\ obj1 \in AnchoredBoxes
          /\ obj2 \in Boxes
          /\ slackness \in Slacks
          /\ oracle = NoOracle
       \/ /\ fn = "Ell_is_covered"
          /\ obj1 = None
          /\ obj2 = None
          /\ slackness \in EllSlacks(cone)
          /\ oracle \in [feasible : BOOLEAN, optimum : {<<>>}]
       \/ /\ fn = "Ell_is_dominated"
          /\ obj1 = None
          /\ obj2 = None
          /\ slackness \in EllSlacks(cone)
          /\ oracle \in {o \in [feasible : BOOLEAN, optimum : [1..Len(cone) -> OptVals]] :
                            ~ o.feasible => \A n \in 1..Len(cone) : o.optimum[n] = 0}
    /\ ret = NoRet
    /\ pc = "ready" /\ row = 0 /\ last = NoLast /\ nsolves = 0 /\ total = 0
    /\ intersect_iteratively = FALSE
    /\ lower = [i \in Dims |-> -BIG]
    /\ upper = [i \in Dims |-> BIG]
    /\ op = "init" /\ argL = None /\ argU = None /\ err = None /\ pre = TRUE
    /\ EllIdle
    /\ StoreIdle
    /\ CallIdle

\* the problem being solved is feasible
problem_feasible ==
    IF fn = "Rect_is_covered" THEN Rect_is_covered_feasible(cone, obj1, obj2, slackness)
    ELSE oracle.feasible

\* the predicate up to its first solve: the assertion on the slackness
Enter ==
    /\ pc = "ready"
    /\ IF slackness_ok(fn, cone, slackness)
       THEN /\ pc' = "primary"
            /\ row' = 1
            /\ UNCHANGED ret
       ELSE /\ pc' = "raised"
            /\ ret' = [val |-> FALSE, raised |-> "AssertionError", checked |-> 0]
            /\ UNCHANGED row
    /\ UNCHANGED <<obj1, obj2, cone, slackness, fn, last, nsolves, total, oracle, regionVars,
                 ellVars, callVars, storeVars>>

\* the predicate from a solve that returned with the given status to its
\* return, its raise, or its next solve
Returned(status) ==
    IF fn = "Rect_is_covered"
    THEN /\ ret' = Rect_is_covered_return(status)
         /\ pc' = "done"
         /\ nsolves' = nsolves + 1
         /\ UNCHANGED row
    ELSE IF fn = "Ell_is_covered"
    THEN /\ ret' = Ell_is_covered_return(status)
         /\ pc' = IF ret'.raised = None THEN "done" ELSE "raised"
         /\ nsolves' = nsolves + 1
         /\ UNCHANGED row
    ELSE LET value == prob_value(status, oracle.optimum[row])
             slack_n == Broadcast(slackness, Len(cone))[row]
         IN  IF value.kind = "None"
             THEN /\ ret' = [val |-> FALSE, raised |-> "TypeError", checked |-> row]
                  /\ pc' = "raised"
                  /\ nsolves' = nsolves + 1
                  /\ UNCHANGED row
             ELSE IF row_fails(value, slack_n)
             THEN /\ ret' = [val |-> FALSE, raised |-> None, checked |-> row]
                  /\ pc' = "done"
                  /\ nsolves' = nsolves + 1
                  /\ UNCHANGED row
             ELSE IF row = Len(cone)
             THEN /\ ret' = [val |-> TRUE, raised |-> None, checked |-> row]
                  /\ pc' = "done"
                  /\ nsolves' = nsolves + 1
                  /\ UNCHANGED row
             ELSE /\ row' = row + 1
                  /\ nsolves' = 0
                  /\ pc' = "primary"
                  /\ UNCHANGED ret

\* prob.solve(), and what follows it up to the next solve
PrimarySolve ==
    /\ pc = "primary"
    /\ \E outcome \in Outcomes(problem_feasible) :
          /\ last' = [solver |-> "default", outcome |-> outcome, row |-> row]
          /\ total' = total + 1
          /\ IF outcome \in Raises
             THEN IF except_SolverError(outcome)
                  THEN /\ pc' = "fallback"
                       /\ nsolves' = nsolves + 1
                       /\ UNCHANGED <<ret, row>>
                  ELSE /\ pc' = "raised"
                       /\ nsolves' = nsolves + 1
                       /\ ret' = [val |-> FALSE, raised |-> outcome, checked |-> row]
                       /\ UNCHANGED row
             ELSE Returned(outcome)
    /\ UNCHANGED <<obj1, obj2, cone, slackness, fn, oracle, regionVars, ellVars, callVars,
                   storeVars>>

\* prob.solve(solver=cp.SCS) in the except clause, and what follows it
FallbackSolve ==
    /\ pc = "fallback"
    /\ \E outcome \in Outcomes(problem_feasible) :
          /\ last' = [solver |-> "SCS", outcome |-> outcome, row |-> row]
          /\ total' = total + 1
          /\ IF outcome \in Raises
             THEN /\ pc' = "raised"
                  /\ nsolves' = nsolves + 1
                  /\ ret' = [val |-> FALSE, raised |-> outcome, checked |-> row]
                  /\ UNCHANGED row
             ELSE Returned(outcome)
    /\ UNCHANGED <<obj1, obj2, cone, slackness, fn, oracle, regionVars, ellVars, callVars,
                   storeVars>>

SolveNext ==
    \/ Enter
    \/ PrimarySolve
    \/ FallbackSolve

(***************************************************************************)
(* Specifications                                                          *)
(***************************************************************************)
vars == <<regionVars, geomVars, solveVars, ellVars, callVars, storeVars>>

SpecRegion == RegionInit /\ [][RegionNext]_vars

SpecGeom == GeomInit /\ [][GeomNext]_vars

SpecSolve == SolveInit /\ [][SolveNext]_vars

(***************************************************************************)
(* C1, C2: the region under update                                         *)
(***************************************************************************)
\* two closed boxes have a point in common
BoxesShareAPoint(l1, u1, l2, u2) ==
    \A i \in DOMAIN l1 : Max2(l1[i], l2[i]) <= Min2(u1[i], u2[i])

IsBox(l, u) == \A i \in DOMAIN l : l[i] <= u[i]

\* C1: an iterative update of a region [lower, upper] with the box [L, U]
\* (both proper boxes) leaves the coordinatewise max of the lowers and min of
\* the uppers if the two boxes overlap, and exactly [L, U] if they do not.
C1_IterativeUpdateIntersectsOrReplaces ==
    [][ ( /\ intersect_iteratively
          /\ op' = "update"
          /\ err' = None
          /\ IsBox(lower, upper)
          /\ IsBox(argL', argU') )
        => IF BoxesShareAPoint(lower, upper, argL', argU')
           THEN /\ lower' = np_maximum(lower, argL')
                /\ upper' = np_minimum(upper, argU')
           ELSE /\ lower' = argL'
                /\ upper' = argU' ]_vars

\* C2: lower <= upper elementwise after any sequence of updates with
\* scale >= 0 (and a covariance with non-negative diagonal), in both modes.
C2_LowerLeqUpper == pre => \A i \in Dims : lower[i] <= upper[i]

\* C2's case: an iterative update, after updates with scale >= 0 only, that
\* kept part of the history (the region is not the incoming box).
C2_Witness ==
    /\ intersect_iteratively
    /\ pre
    /\ op = "update"
    /\ err = None
    /\ (lower # argL \/ upper # argU)

(***************************************************************************)
(* C3, C4, C10: the geometric predicates                                   *)
(***************************************************************************)
\* the vertices of a box, as a set: every choice of lower[i] or upper[i]
VertexSet(o) ==
    {v \in [Dims -> 0..MaxCoord] : \A i \in Dims : v[i] = o.lower[i] \/ v[i] = o.upper[i]}

\* the k-th pair (counted from 1) of is_dominated's nested loops passes
PairDominates(k) ==
    LET verts1 == hyperrectangle_get_vertices(obj1.lower, obj1.upper)
        verts2 == hyperrectangle_get_vertices(obj2.lower, obj2.upper)
        vert1 == verts1[((k - 1) \div Len(verts2)) + 1]
        vert2 == verts2[((k - 1) % Len(verts2)) + 1]
    IN  dominates(cone, VecAdd(vert2, Broadcast(slackness, Dim)), vert1)

\* C3: is_dominated returns true iff order.dominates(v2 + slackness, v1) holds
\* for every vertex v1 of obj1 and every vertex v2 of obj2 (all 2^D x 2^D
\* pairs); it returns false at the first pair that fails.
C3_IsDominatedAllVertexPairs ==
    (fn = "Rect_is_dominated" /\ ret.raised = None)
    => /\ ret.val = (\A v1 \in VertexSet(obj1), v2 \in VertexSet(obj2) :
                        dominates(cone, VecAdd(v2, Broadcast(slackness, Dim)), v1))
       /\ ret.val => ret.checked = (2 ^ Dim) * (2 ^ Dim)
       /\ ~ ret.val => /\ ~ PairDominates(ret.checked)
                       /\ \A k \in 1..(ret.checked - 1) : PairDominates(k)

\* C3's case: a call under a cone that is not the componentwise order, whose
\* first pairs pass and a later one fails
C3_Witness ==
    /\ fn = "Rect_is_dominated"
    /\ ret.raised = None
    /\ cone = ConeAcute
    /\ ~ ret.val
    /\ ret.checked > 1

\* the k-th vertex (counted from 1) of obj1, mapped through the cone matrix,
\* lies in the extended polytope of obj2's mapped vertices
VertexInExtendedPolytope(k) ==
    is_pt_in_extended_polytope(cone_vertices(cone, obj1)[k], cone_vertices(cone, obj2), FALSE)

\* C4: check_dominates returns true iff every vertex of obj1, mapped through W,
\* passes is_pt_in_extended_polytope against the W-mapped vertices of obj2; it
\* returns false at the first vertex that fails; the slackness has no part in
\* the result.
C4_CheckDominatesEveryVertex ==
    fn = "Rect_check_dominates"
    => /\ ret.raised = None
       /\ ret.val = (\A k \in 1..(2 ^ Dim) : VertexInExtendedPolytope(k))
       /\ ret.val => ret.checked = 2 ^ Dim
       /\ ~ ret.val => /\ ~ VertexInExtendedPolytope(ret.checked)
                       /\ \A k \in 1..(ret.checked - 1) : VertexInExtendedPolytope(k)

\* C4's case: a call with a slackness that is not zero, in which the first
\* vertex passes and a later one fails
C4_Witness ==
    /\ fn = "Rect_check_dominates"
    /\ \E i \in 1..Len(slackness) : slackness[i] # 0
    /\ ~ ret.val
    /\ ret.checked > 1

\* C10: hyperrectangle_check_intersection returns true iff in every dimension
\* lower1 <= upper2 and lower2 <= upper1 (boxes that share only a boundary
\* face intersect).
C10_CheckIntersectionClosedBoxes ==
    fn = "hyperrectangle_check_intersection"
    => ret.val = (\A i \in Dims : /\ obj1.lower[i] <= obj2.upper[i]
                                  /\ obj2.lower[i] <= obj1.upper[i])

(***************************************************************************)
(* C5 .. C9: the predicates that solve                                     *)
(***************************************************************************)
\* some z1 in obj1's box and z2 in obj2's box have W (z2 - z1 - slackness) >= 0
\* (z = g / 2 on the grid of the halves)
ExistsCoveringPair ==
    \E g1 \in [Dims -> HalfGrid] :
       /\ \A i \in Dims : 2 * obj1.lower[i] <= g1[i] /\ g1[i] <= 2 * obj1.upper[i]
       /\ \E g2 \in [Dims -> HalfGrid] :
             /\ \A i \in Dims : 2 * obj2.lower[i] <= g2[i] /\ g2[i] <= 2 * obj2.upper[i]
             /\ \A r \in 1..Len(cone) :
                   Dot(cone[r], [i \in Dims |->
                       g2[i] - g1[i] - 2 * Broadcast(slackness, Dim)[i]]) >= 0

C6_IsCoveredByStatus ==
    (fn \in {"Rect_is_covered", "Ell_is_covered"} /\ pc \in {"done", "raised"}
        /\ last.outcome \in {"infeasible", "optimal", "None"})
    => /\ pc = "done"
       /\ ret.raised = None
       /\ ret.val = (last.outcome # "infeasible")

\* C7: the fallback solver is invoked only right after the primary solve of the
\* same problem raised the solver's own error, as the second and last solve of
\* that problem (never after a primary solve that returned, or that raised
\* something else); when the fallback raises, the error reaches the caller and
\* nothing is solved afterwards.
C7_FallbackOnlyAfterPrimarySolverError ==
    [][ /\ (total' = total + 1 /\ last'.solver = "SCS")
           => /\ last.solver = "default"
              /\ last.outcome = "SolverError"
              /\ last'.row = last.row
              /\ nsolves = 1
        /\ (total' = total + 1 /\ last'.solver = "default") => nsolves = 0
        /\ nsolves' <= 2
        /\ (total' = total + 1 /\ last'.solver = "SCS" /\ last'.outcome \in Raises)
           => /\ pc' = "raised"
              /\ ret'.raised = last'.outcome
        /\ pc \in {"raised", "done"} => total' = total ]_vars

\* C7's case: in the ellipsoidal is_dominated the primary solve of the second
\* row raised, the fallback raised too, and the error reached the caller
C7_Witness ==
    /\ fn = "Ell_is_dominated"
    /\ last.solver = "SCS"
    /\ last.outcome = "SolverError"
    /\ last.row = 2
    /\ nsolves = 2
    /\ pc = "raised"

\* C8: the ellipsoidal is_dominated returns false whenever the solver reports
\* the problem of a cone row infeasible.
C8_InfeasibleRowGivesFalse ==
    (fn = "Ell_is_dominated" /\ pc = "done" /\ last.outcome = "infeasible")
    => ret.val = FALSE

\* C9: given optimal values from the solver, the ellipsoidal is_dominated
\* returns true iff the minimum of every row n is >= -slackness[n] (a scalar
\* slackness counting for every row); the rows are solved in index order up to
\* the first one whose minimum is below -slackness[n], and no further.
C9_EllIsDominatedEveryRow ==
    (fn = "Ell_is_dominated" /\ pc = "done" /\ oracle.feasible)
    => LET slack == Broadcast(slackness, Len(cone))
           passes(n) == oracle.optimum[n] >= - slack[n]
       IN  /\ ret.val = (\A n \in 1..Len(cone) : passes(n))
           /\ ret.checked = row
           /\ \A n \in 1..(row - 1) : passes(n)
           /\ IF ret.val THEN row = Len(cone) ELSE ~ passes(row)

\* C9's case: a scalar slackness that is not zero, a first row that passes
\* and a second row that fails, with a row left unsolved
C9_Witness ==
    /\ fn = "Ell_is_dominated"
    /\ pc = "done"
    /\ oracle.feasible
    /\ Size(slackness) = 1
    /\ slackness[1] # 0
    /\ ~ ret.val
    /\ row = 2
    /\ Len(cone) = 3

(***************************************************************************)
(* The utility functions, called on their own                              *)
(***************************************************************************)
\* dimension of the points handed to is_pt_in_extended_polytope and of the
\* bounds handed to the hyperrectangle utilities (polytope.shape[1])
PolyDim == 3
\* coordinates of a polytope's vertices are 0 or MaxVert
MaxVert == 3
\* coordinates of the point tested against the polytope, in 0..MaxPt
MaxPt == 1

\* polytopes of PolyDim vertices and the points tested against them
PolyVerts == [1..PolyDim -> {0, MaxVert}]
Polytopes == [1..PolyDim -> PolyVerts]
PolyPoints == [1..PolyDim -> 0..MaxPt]

\* what a call that returned v leaves in out
Returns(v) == [done |-> TRUE, val |-> v, raised |-> None]
\* what a call that raised e leaves in out
RaisesError(e) == [done |-> TRUE, val |-> None, raised |-> e]

\* is_pt_in_extended_polytope(pt, polytope, invert_extension)
CallIsPtInExtendedPolytope ==
    /\ fn = "is_pt_in_extended_polytope"
    /\ ~ out.done
    /\ out' = Returns(is_pt_in_extended_polytope(args.pt, args.polytope,
                                                 args.invert_extension))
    /\ UNCHANGED <<args, regionVars, geomVars, solveVars, ellVars, storeVars>>

\* bounds handed to the hyperrectangle utilities: any two vectors of one
\* length D in 1..PolyDim (lower <= upper is not required of them)
BoundVecs(D) == [1..D -> 0..MaxPt]

\* hyperrectangle_get_vertices(lower, upper)
CallGetVertices ==
    /\ fn = "hyperrectangle_get_vertices"
    /\ ~ out.done
    /\ out' = Returns(hyperrectangle_get_vertices(args.lower, args.upper))
    /\ UNCHANGED <<args, regionVars, geomVars, solveVars, ellVars, storeVars>>

\* hyperrectangle_get_region_matrix(lower, upper)
CallGetRegionMatrix ==
    /\ fn = "hyperrectangle_get_region_matrix"
    /\ ~ out.done
    /\ out' = Returns(hyperrectangle_get_region_matrix(args.lower, args.upper))
    /\ UNCHANGED <<args, regionVars, geomVars, solveVars, ellVars, storeVars>>

\* An Optional[np.ndarray] argument: None, or an array
NoArray == [given |-> FALSE, v |-> <<>>]
Array(v) == [given |-> TRUE, v |-> v]
OptionalBounds == {NoArray} \cup {Array(v) : v \in UNION {BoundVecs(D) : D \in 1..PolyDim}}

\* A plausible slip: the order of the bounds is not asserted.
RectangularConfidenceRegion_init_unordered(dim, lo, up, iter) ==
    IF lo.given /\ up.given
    THEN IF ~ (Len(lo.v) = dim /\ Len(up.v) = dim)
         THEN RaisesError("AssertionError")
         ELSE Returns([lower |-> lo.v, upper |-> up.v, intersect_iteratively |-> iter])
    ELSE Returns([lower |-> [i \in 1..dim |-> -BIG], upper |-> [i \in 1..dim |-> BIG],
                  intersect_iteratively |-> iter])

\* RectangularConfidenceRegion.__init__(dim, lower, upper, intersect_iteratively):
\* the object it leaves, or the error of its assertions
RectangularConfidenceRegion_init(dim, lo, up, iter) ==
    IF lo.given /\ up.given
    THEN IF ~ (Len(lo.v) = dim /\ Len(up.v) = dim)
         THEN RaisesError("AssertionError")
         ELSE IF ~ (\A i \in 1..dim : lo.v[i] <= up.v[i])
         THEN RaisesError("AssertionError")
         ELSE Returns([lower |-> lo.v, upper |-> up.v, intersect_iteratively |-> iter])
    ELSE Returns([lower |-> [i \in 1..dim |-> -BIG], upper |-> [i \in 1..dim |-> BIG],
                  intersect_iteratively |-> iter])

\* RectangularConfidenceRegion(dim, lower, upper, intersect_iteratively)
CallInit ==
    /\ fn = "RectangularConfidenceRegion"
    /\ ~ out.done
    /\ out' = RectangularConfidenceRegion_init(args.dim, args.lower, args.upper,
                                               args.intersect_iteratively)
    /\ UNCHANGED <<args, regionVars, geomVars, solveVars, ellVars, storeVars>>

\* one call of a utility function or of the constructor, with its arguments
UtilInit ==
    /\ \/ /\ fn = "is_pt_in_extended_polytope"
          /\ args \in [pt : PolyPoints, polytope : Polytopes, invert_extension : BOOLEAN]
       \/ /\ fn \in {"hyperrectangle_get_vertices", "hyperrectangle_get_region_matrix"}
          /\ \E D \in 1..PolyDim : args \in [lower : BoundVecs(D), upper : BoundVecs(D)]
       \/ /\ fn = "RectangularConfidenceRegion"
          /\ args \in [dim : 1..PolyDim, lower : OptionalBounds, upper : OptionalBounds,
                       intersect_iteratively : BOOLEAN]
    /\ out = NoOut
    /\ obj1 = None /\ obj2 = None /\ cone = None /\ slackness = None
    /\ ret = NoRet
    /\ intersect_iteratively = FALSE
    /\ lower = [i \in Dims |-> -BIG]
    /\ upper = [i \in Dims |-> BIG]
    /\ op = "init" /\ argL = None /\ argU = None /\ err = None /\ pre = TRUE
    /\ SolveIdle
    /\ EllIdle
    /\ StoreIdle

UtilNext ==
    \/ CallIsPtInExtendedPolytope
    \/ CallGetVertices
    \/ CallGetRegionMatrix
    \/ CallInit

SpecUtil == UtilInit /\ [][UtilNext]_vars

(***************************************************************************)
(* C11, C15, C19, C20: the utility functions                               *)
(***************************************************************************)
\* denominators of the convex weights tried for a point of the hull
HullDen == 3

\* some convex combination q of the polytope's vertices, with weights in
\* multiples of 1 / HullDen, has q <= pt (q >= pt when inverted) in every
\* coordinate; compared after multiplying through by HullDen
HullPointCompares ==
    \E w \in [1..Len(args.polytope) -> 0..HullDen] :
       /\ DotFrom(w, [k \in 1..Len(w) |-> 1], 1) = HullDen
       /\ \A i \in 1..Len(args.pt) :
             LET q == DotFrom(w, [k \in 1..Len(w) |-> args.polytope[k][i]], 1)
             IN  IF args.invert_extension THEN q >= HullDen * args.pt[i]
                                          ELSE q <= HullDen * args.pt[i]

\* C11: is_pt_in_extended_polytope returns true on every pt of
\* conv(vertices) + R^D_{>=0} (of conv(vertices) - R^D_{>=0} when inverted), in
\* every dimension: whenever a point q of the hull compares with pt in every
\* coordinate.
C11_ExtendedPolytopeContainsHullPlusCone ==
    (fn = "is_pt_in_extended_polytope" /\ out.done /\ HullPointCompares)
    => out.val = TRUE

(***************************************************************************)
(* is_covered under two slackness values, through the dispatch helper      *)
(***************************************************************************)
\* radius of an ellipsoid (its alpha), in 0..MaxAlpha
MaxAlpha == 1

RectType == "RectangularConfidenceRegion"
EllType == "EllipsoidalConfidenceRegion"

\* region objects: boxes, and ellipsoids with sigma the identity matrix (balls)
RectRegions == {[type |-> RectType, lower |-> b.lower, upper |-> b.upper] : b \in Boxes}
EllRegions == [type : {EllType}, center : [Dims -> 0..MaxCoord], sigma : {ConeIdentity},
               alpha : 0..MaxAlpha]

\* The constraints of EllipsoidalConfidenceRegion.is_covered have a common
\* solution, for sigma the identity and the componentwise order (W the
\* identity): cons1 and cons2 put mux and muy in the balls of radius alpha
\* around the centers, so muy - mux ranges over the ball of radius
\* alpha1 + alpha2 around center2 - center1, and cons3 asks muy - mux >=
\* slackness; some point of that ball satisfies it iff the distance from
\* center2 - center1 to the orthant above slackness is within the radius.
Ell_is_covered_feasible(o1, o2, slack) ==
    LET m == Len(o1.center)
        s == Broadcast(slack, m)
        short == [i \in 1..m |-> Max2(0, s[i] - (o2.center[i] - o1.center[i]))]
    IN  /\ o1.alpha >= 0
        /\ o2.alpha >= 0
        /\ Dot(short, short) <= (o1.alpha + o2.alpha) * (o1.alpha + o2.alpha)

\* the status an exact solver leaves for a problem
exact_status(feasible) == IF feasible THEN "optimal" ELSE "infeasible"

\* confidence_region_is_covered with a solver that decides every problem
\* exactly: the class method is chosen by the type of region1
confidence_region_is_covered_exact(W, region1, region2, slack) ==
    IF region1.type = RectType
    THEN Rect_is_covered_return(
             exact_status(Rect_is_covered_feasible(W, region1, region2, slack)))
    ELSE IF region1.type = EllType
    THEN Ell_is_covered_return(exact_status(Ell_is_covered_feasible(region1, region2, slack)))
    ELSE [val |-> FALSE, raised |-> "NotImplementedError", checked |-> 0]

\* two regions of one type and two scalar slackness values 0 <= s <= s2, under
\* the componentwise order
CoverInit ==
    /\ cone = ConeIdentity
    /\ \/ obj1 \in RectRegions /\ obj2 \in RectRegions
       \/ obj1 \in EllRegions /\ obj2 \in EllRegions
    /\ args \in {a \in [s : 0..MaxSlack, s2 : 0..MaxSlack] : a.s <= a.s2}
    /\ slackness = None
    /\ fn = None
    /\ ret = NoRet
    /\ out = NoOut
    /\ intersect_iteratively = FALSE
    /\ lower = [i \in Dims |-> -BIG]
    /\ upper = [i \in Dims |-> BIG]
    /\ op = "init" /\ argL = None /\ argU = None /\ err = None /\ pre = TRUE
    /\ SolveIdle
    /\ EllIdle
    /\ StoreIdle

\* confidence_region_is_covered(order, obj1, obj2, s); its result is kept in out
CoverFirst ==
    /\ fn = None
    /\ fn' = "confidence_region_is_covered"
    /\ slackness' = <<args.s>>
    /\ ret' = confidence_region_is_covered_exact(cone, obj1, obj2, <<args.s>>)
    /\ out' = [done |-> FALSE, val |-> ret'.val, raised |-> ret'.raised]
    /\ UNCHANGED <<obj1, obj2, cone, args, regionVars, solveVars, ellVars, storeVars>>

\* confidence_region_is_covered(order, obj1, obj2, s2), after the call with s
CoverSecond ==
    /\ fn = "confidence_region_is_covered"
    /\ ~ out.done
    /\ slackness' = <<args.s2>>
    /\ ret' = confidence_region_is_covered_exact(cone, obj1, obj2, <<args.s2>>)
    /\ out' = [out EXCEPT !.done = TRUE]
    /\ UNCHANGED <<obj1, obj2, cone, fn, args, regionVars, solveVars, ellVars, storeVars>>

CoverNext ==
    \/ CoverFirst
    \/ CoverSecond

SpecCover == CoverInit /\ [][CoverNext]_vars

\* C12: for the componentwise order and scalar slackness 0 <= s <= s2, when
\* is_covered(order, obj1, obj2, s) is true (out.val, the first call) then
\* is_covered(order, obj1, obj2, s2) is true (ret.val, the second call).
C12_IsCoveredMonotoneInSlackness ==
    (fn = "confidence_region_is_covered" /\ out.done
        /\ out.raised = None /\ ret.raised = None)
    => (out.val = TRUE => ret.val = TRUE)

(***************************************************************************)
(* update of the two region classes, with its arguments on record          *)
(***************************************************************************)
\* A covariance is given by its shape (square or not) and its diagonal.
SquareCov(diag) == [square |-> TRUE, diag |-> diag]
NotSquareCov == [square |-> FALSE, diag |-> [i \in Dims |-> 0]]

\* the arguments of update: any mean, a covariance with one variance on the
\* whole diagonal or one that is not square, and a scale that is a scalar
\* (an array of size 1) or a vector
UpdateMeans == [Dims -> 0..MaxMean]
UpdateCovs == {SquareCov([i \in Dims |-> sd * sd]) : sd \in 0..MaxStd} \cup {NotSquareCov}
UpdateScales == {<<k>> : k \in 0..MaxScale} \cup {[i \in Dims |-> 1]}

\* A plausible slip: update intersects whatever the mode.
Rect_update_intersecting(region, mean, covariance, scale) ==
    IF ~ covariance.square
    THEN [region EXCEPT !.raised = "AssertionError"]
    ELSE LET sc == Broadcast(scale, Len(mean))
             L == [i \in DOMAIN mean |-> mean[i] - np_sqrt(covariance.diag[i]) * sc[i]]
             U == [i \in DOMAIN mean |-> mean[i] + np_sqrt(covariance.diag[i]) * sc[i]]
             r == intersect(region.lower, region.upper, L, U)
         IN  [lower |-> r.lower, upper |-> r.upper, raised |-> None]

\* RectangularConfidenceRegion.update(mean, covariance, scale) on a region
\* [lower, upper, raised] in the given mode: the region it leaves and the
\* error it raised
Rect_update(region, mean, covariance, scale) ==
    IF ~ covariance.square
    THEN [region EXCEPT !.raised = "AssertionError"]
    ELSE LET sc == Broadcast(scale, Len(mean))
             L == [i \in DOMAIN mean |-> mean[i] - np_sqrt(covariance.diag[i]) * sc[i]]
             U == [i \in DOMAIN mean |-> mean[i] + np_sqrt(covariance.diag[i]) * sc[i]]
             r == IF region.intersect_iteratively
                  THEN intersect(region.lower, region.upper, L, U)
                  ELSE [lower |-> L, upper |-> U]
         IN  [region EXCEPT !.lower = r.lower, !.upper = r.upper, !.raised = None]

\* A plausible slip: the size of the scale is not asserted.
Ell_update_any_scale(region, mean, covariance, scale) ==
    IF ~ covariance.square
    THEN [region EXCEPT !.raised = "AssertionError"]
    ELSE [center |-> mean, sigma |-> covariance, alpha |-> scale, raised |-> None]

\* EllipsoidalConfidenceRegion.update(mean, covariance, scale) on a region
\* [center, sigma, alpha, raised]
Ell_update(region, mean, covariance, scale) ==
    IF ~ covariance.square
    THEN [region EXCEPT !.raised = "AssertionError"]
    ELSE IF ~ (Size(scale) = 1)
    THEN [region EXCEPT !.raised = "AssertionError"]
    ELSE [center |-> mean, sigma |-> covariance, alpha |-> scale, raised |-> None]

\* a region of one of the two classes as its constructor leaves it (default or
\* explicit state), before any update; the rectangular one does not intersect
\* iteratively (SpecRegion has that mode)
UpdateInit ==
    /\ \/ /\ fn = RectType
          /\ \/ /\ lower = [i \in Dims |-> -BIG]
                /\ upper = [i \in Dims |-> BIG]
             \/ \E b \in CtorBounds : lower = b.lower /\ upper = b.upper
          /\ EllIdle
       \/ /\ fn = EllType
          /\ \/ /\ center = [i \in Dims |-> 0]
                /\ sigma = SquareCov([i \in Dims |-> 1])
                /\ alpha = <<1>>
             \/ /\ center \in UpdateMeans
                /\ sigma \in {c \in UpdateCovs : c.square}
                /\ alpha \in {sc \in UpdateScales : Size(sc) = 1}
          /\ lower = [i \in Dims |-> -BIG]
          /\ upper = [i \in Dims |-> BIG]
    /\ intersect_iteratively = FALSE
    /\ op = "init" /\ argL = None /\ argU = None /\ err = None /\ pre = TRUE
    /\ obj1 = None /\ obj2 = None /\ cone = None /\ slackness = None
    /\ ret = NoRet
    /\ SolveIdle
    /\ CallIdle
    /\ StoreIdle

\* RectangularConfidenceRegion.update(mean, covariance, scale); args records
\* the arguments and whether an update was called before this one
RectUpdateCall(mean, covariance, scale) ==
    /\ fn = RectType
    /\ LET r == Rect_update([lower |-> lower, upper |-> upper,
                             intersect_iteratively |-> intersect_iteratively,
                             raised |-> None], mean, covariance, scale)
       IN  /\ lower' = r.lower
           /\ upper' = r.upper
           /\ out' = IF r.raised = None THEN Returns(None) ELSE RaisesError(r.raised)
    /\ args' = [mean |-> mean, covariance |-> covariance, scale |-> scale,
                later |-> out.done]
    /\ UNCHANGED <<intersect_iteratively, op, argL, argU, err, pre>>
    /\ UNCHANGED <<geomVars, solveVars, ellVars, storeVars>>

\* EllipsoidalConfidenceRegion.update(mean, covariance, scale)
EllUpdateCall(mean, covariance, scale) ==
    /\ fn = EllType
    /\ LET r == Ell_update([center |-> center, sigma |-> sigma, alpha |-> alpha,
                            raised |-> None], mean, covariance, scale)
       IN  /\ center' = r.center
           /\ sigma' = r.sigma
           /\ alpha' = r.alpha
           /\ out' = IF r.raised = None THEN Returns(None) ELSE RaisesError(r.raised)
    /\ args' = [mean |-> mean, covariance |-> covariance, scale |-> scale,
                later |-> out.done]
    /\ UNCHANGED <<regionVars, geomVars, solveVars, storeVars>>

UpdateNext ==
    \/ \E mean \in UpdateMeans, covariance \in UpdateCovs, scale \in UpdateScales :
          RectUpdateCall(mean, covariance, scale)
    \/ \E mean \in UpdateMeans, covariance \in UpdateCovs, scale \in UpdateScales :
          EllUpdateCall(mean, covariance, scale)

SpecUpdate == UpdateInit /\ [][UpdateNext]_vars

(***************************************************************************)
(* C13, C14: update                                                        *)
(***************************************************************************)
\* C13: after an update that returned, a rectangular region that does not
\* intersect iteratively has lower = mean - std * scale and upper = mean +
\* std * scale, and an ellipsoidal one has center = mean, sigma = covariance,
\* alpha = scale, whatever the state before the call and the earlier updates.
C13_NonIterativeUpdateReplaces ==
    (out.done /\ out.raised = None)
    => IF fn = RectType
       THEN \A i \in Dims :
               LET std == CHOOSE r \in 0..MaxStd : r * r = args.covariance.diag[i]
                   scale == IF Len(args.scale) = 1 THEN args.scale[1] ELSE args.scale[i]
               IN  /\ lower[i] = args.mean[i] - std * scale
                   /\ upper[i] = args.mean[i] + std * scale
       ELSE /\ center = args.mean
            /\ sigma = args.covariance
            /\ alpha = args.scale

\* C13's case: an update that returned, after an earlier update, on a
\* rectangular region with a scale that is not zero
C13_Witness ==
    /\ fn = RectType
    /\ out.done
    /\ out.raised = None
    /\ args.later
    /\ args.scale = <<1>>
    /\ args.covariance.diag[1] > 0
    /\ lower # upper

\* C14: an update with a covariance that is not square raises an assertion
\* error (both classes), so does an ellipsoidal update with a scale that is not
\* a scalar, and the call leaves lower and upper (center, sigma and alpha) as
\* they were.
C14_UpdateFailsFastAndKeepsState ==
    [][ ( \/ ~ args'.covariance.square
          \/ (fn = EllType /\ Len(args'.scale) # 1) )
        => /\ out'.raised = "AssertionError"
           /\ UNCHANGED <<lower, upper, center, sigma, alpha>> ]_vars

\* C14's case: an ellipsoidal region that an earlier update has set is
\* updated with a vector scale, and the call raised
C14_Witness ==
    /\ fn = EllType
    /\ out.done
    /\ out.raised = "AssertionError"
    /\ args.later
    /\ args.covariance.square
    /\ Len(args.scale) > 1
    /\ center # [i \in Dims |-> 0]

(***************************************************************************)
(* C15: the constructor                                                    *)
(***************************************************************************)
\* C15: RectangularConfidenceRegion(dim, lower, upper) with both bounds given
\* raises an assertion error if either has a length other than dim or if
\* lower > upper in some coordinate, and otherwise stores exactly the given
\* bounds; with no bounds given it stores -1e12 and +1e12 in each of the dim
\* coordinates.
C15_ConstructorChecksOrStoresBounds ==
    (fn = "RectangularConfidenceRegion" /\ out.done)
    => IF args.lower.given /\ args.upper.given
       THEN IF \/ Len(args.lower.v) # args.dim
               \/ Len(args.upper.v) # args.dim
               \/ \E i \in 1..args.dim : args.lower.v[i] > args.upper.v[i]
            THEN out.raised = "AssertionError"
            ELSE /\ out.raised = None
                 /\ out.val.lower = args.lower.v
                 /\ out.val.upper = args.upper.v
       ELSE (~ args.lower.given /\ ~ args.upper.given)
            => /\ out.raised = None
               /\ Len(out.val.lower) = args.dim
               /\ Len(out.val.upper) = args.dim
               /\ \A i \in 1..args.dim : /\ out.val.lower[i] = -BIG
                                         /\ out.val.upper[i] = BIG

\* C15's case: bounds of the right length with lower above upper in the
\* second coordinate only, which the constructor refused
C15_Witness ==
    /\ fn = "RectangularConfidenceRegion"
    /\ out.done
    /\ out.raised = "AssertionError"
    /\ args.dim = 2
    /\ args.lower.given /\ args.upper.given
    /\ Len(args.lower.v) = 2 /\ Len(args.upper.v) = 2
    /\ args.lower.v[1] <= args.upper.v[1]
    /\ args.lower.v[2] > args.upper.v[2]

(***************************************************************************)
(* The dispatch helpers                                                    *)
(***************************************************************************)
\* a region of a class that is neither of the two
OtherType == "ConfidenceRegion"
OtherRegions == {[type |-> OtherType]}

Helpers == {"confidence_region_is_dominated", "confidence_region_check_dominates",
            "confidence_region_is_covered"}

\* the name of the method a helper stands for
method_of(helper) ==
    IF helper = "confidence_region_is_dominated" THEN "is_dominated"
    ELSE IF helper = "confidence_region_check_dominates" THEN "check_dominates"
    ELSE "is_covered"

\* A plausible slip: the branch of the ellipsoidal class is missing.
dispatch_rect_only(helper, region1) ==
    IF region1.type = RectType
    THEN [class |-> RectType, method |-> method_of(helper)]
    ELSE [class |-> None, method |-> None]

\* the isinstance chain of a helper: the class method it calls, or none
dispatch(helper, region1) ==
    IF region1.type = RectType
    THEN [class |-> RectType, method |-> method_of(helper)]
    ELSE IF region1.type = EllType
    THEN [class |-> EllType, method |-> method_of(helper)]
    ELSE [class |-> None, method |-> None]

NotImplemented == [val |-> FALSE, raised |-> "NotImplementedError", checked |-> 0]

\* the result of a method whose assertion on the slackness holds, or the
\* assertion's error
asserted(ok, result) ==
    IF ok THEN result ELSE [val |-> FALSE, raised |-> "AssertionError", checked |-> 0]

\* The minimum of (muy - mux)[n] over mux and muy in two balls (sigma the
\* identity): it is taken at the two points furthest apart along coordinate n.
Ell_row_optimum(o1, o2, n) == (o2.center[n] - o1.center[n]) - (o1.alpha + o2.alpha)

\* the loop of EllipsoidalConfidenceRegion.is_dominated from row n on, under
\* the componentwise order and an exact solver
RECURSIVE Ell_is_dominated_rows(_, _, _, _, _)
Ell_is_dominated_rows(W, o1, o2, slack, n) ==
    LET feasible == o1.alpha >= 0 /\ o2.alpha >= 0
        value == prob_value(exact_status(feasible), Ell_row_optimum(o1, o2, n))
    IN  IF row_fails(value, slack[n])
        THEN [val |-> FALSE, raised |-> None, checked |-> n]
        ELSE IF n = Len(W)
        THEN [val |-> TRUE, raised |-> None, checked |-> n]
        ELSE Ell_is_dominated_rows(W, o1, o2, slack, n + 1)

\* the class method a helper dispatched to, run to its end with a solver that
\* decides every problem exactly (the ellipsoids are balls and their order is
\* the componentwise one)
run_method(target, W, o1, o2, slack) ==
    IF target.class = RectType
    THEN IF target.method = "is_dominated" THEN Rect_is_dominated(W, o1, o2, slack)
         ELSE IF target.method = "check_dominates"
         THEN Rect_check_dominates(W, o1, o2, <<0>>)
         ELSE asserted(slackness_ok("Rect_is_covered", W, slack),
                  Rect_is_covered_return(
                      exact_status(Rect_is_covered_feasible(W, o1, o2, slack))))
    ELSE IF target.class = EllType
    THEN IF target.method = "is_dominated"
         THEN asserted(slackness_ok("Ell_is_dominated", W, slack),
                  Ell_is_dominated_rows(W, o1, o2, Broadcast(slack, Len(W)), 1))
         ELSE IF target.method = "check_dominates" THEN NotImplemented
         ELSE asserted(slackness_ok("Ell_is_covered", W, slack),
                  Ell_is_covered_return(exact_status(Ell_is_covered_feasible(o1, o2, slack))))
    ELSE NotImplemented

\* slackness values handed to the helpers: scalars, a vector, one too long
DispatchSlacks == [1..1 -> SlackVals] \cup {[i \in Dims |-> 0], [i \in 1..(Dim + 2) |-> 0]}

\* a helper, two regions of one class and the other arguments of the call
DispatchInit ==
    /\ fn \in Helpers
    /\ \/ /\ obj1 \in {r \in RectRegions : \A i \in Dims : r.lower[i] = 0}
          /\ obj2 \in RectRegions
          /\ cone \in Cones
       \/ /\ obj1 \in EllRegions
          /\ obj2 \in EllRegions
          /\ cone = ConeIdentity
       \/ /\ obj1 \in OtherRegions
          /\ obj2 \in OtherRegions
          /\ cone \in Cones
    /\ slackness \in DispatchSlacks
    /\ ret = NoRet
    /\ out = NoOut
    /\ args = None
    /\ intersect_iteratively = FALSE
    /\ lower = [i \in Dims |-> -BIG]
    /\ upper = [i \in Dims |-> BIG]
    /\ op = "init" /\ argL = None /\ argU = None /\ err = None /\ pre = TRUE
    /\ SolveIdle
    /\ EllIdle
    /\ StoreIdle

\* one call of a helper: out.val is the class whose method it called (None: it
\* called none), ret is what the call returned or raised
CallHelper ==
    /\ ~ out.done
    /\ LET target == dispatch(fn, obj1)
       IN  /\ ret' = run_method(target, cone, obj1, obj2, slackness)
           /\ out' = [done |-> TRUE, val |-> target.class, raised |-> ret'.raised]
    /\ UNCHANGED <<obj1, obj2, cone, slackness, fn, args, regionVars, solveVars, ellVars,
                   storeVars>>

DispatchNext == CallHelper

SpecDispatch == DispatchInit /\ [][DispatchNext]_vars

(***************************************************************************)
(* C16: dispatch                                                           *)
(***************************************************************************)
\* C16: each helper calls the rectangular class method on a rectangular
\* region1 and the ellipsoidal one on an ellipsoidal region1 (its outcome is
\* that method's), raises NotImplementedError on a region of another class,
\* and confidence_region_check_dominates on an ellipsoidal region raises
\* NotImplementedError.
C16_HelpersDispatchOnRegionType ==
    out.done
    => /\ obj1.type = RectType
          => /\ out.val = RectType
             /\ fn = "confidence_region_is_dominated"
                => ret = Rect_is_dominated(cone, obj1, obj2, slackness)
             /\ fn = "confidence_region_check_dominates"
                => ret = Rect_check_dominates(cone, obj1, obj2, <<0>>)
             /\ ret.raised # "NotImplementedError"
       /\ obj1.type = EllType
          => /\ out.val = EllType
             /\ fn = "confidence_region_check_dominates"
                => ret.raised = "NotImplementedError"
             /\ fn # "confidence_region_check_dominates"
                => ret.raised # "NotImplementedError"
       /\ obj1.type \notin {RectType, EllType}
          => /\ out.val = None
             /\ ret.raised = "NotImplementedError"

\* C16's case: confidence_region_check_dominates called on two ellipsoids
C16_Witness ==
    /\ out.done
    /\ fn = "confidence_region_check_dominates"
    /\ obj1.type = EllType
    /\ out.val = EllType
    /\ ret.raised = "NotImplementedError"

(***************************************************************************)
(* utils.py: get_alpha, get_alpha_vec                                      *)
(***************************************************************************)
\* The minimum of f.T @ x = -W[rind] @ x over the cone cut by the unit ball;
\* x = 0 is in it, so the problem is feasible and its minimum is not positive.
AlphaOpts == (0 - MaxOpt)..0

\* alpha_vec = np.zeros((W.shape[0], 1))
alpha_vec_zeros(W) == [i \in 1..Len(W) |-> 0]

\* get_alpha_vec(W) about to compute its first row; the minima of the
\* problems are given, what the solver makes of them is not
AlphaInit ==
    /\ fn = "get_alpha_vec"
    /\ cone \in Cones
    /\ oracle \in [feasible : {TRUE}, optimum : [1..Len(cone) -> AlphaOpts]]
    /\ obj1 = None /\ obj2 = None
    /\ slackness = <<0>>
    /\ ret = NoRet
    /\ pc = "primary" /\ row = 1 /\ last = NoLast /\ nsolves = 0 /\ total = 0
    /\ out = [done |-> FALSE, val |-> alpha_vec_zeros(cone), raised |-> None]
    /\ args = None
    /\ intersect_iteratively = FALSE
    /\ lower = [i \in Dims |-> -BIG]
    /\ upper = [i \in Dims |-> BIG]
    /\ op = "init" /\ argL = None /\ argU = None /\ err = None /\ pre = TRUE
    /\ EllIdle
    /\ StoreIdle

\* alpha_vec[i] = get_alpha(i, W): one prob.solve(), then -prob.value; an
\* error of the solve, or of negating a value of None, leaves get_alpha_vec
GetAlpha ==
    /\ fn = "get_alpha_vec"
    /\ pc = "primary"
    /\ \E outcome \in Outcomes(oracle.feasible) :
          LET value == prob_value(outcome, oracle.optimum[row])
          IN  /\ last' = [solver |-> "default", outcome |-> outcome, row |-> row]
              /\ total' = total + 1
              /\ nsolves' = 1
              /\ IF outcome \in Raises
                 THEN /\ pc' = "raised"
                      /\ out' = [out EXCEPT !.done = TRUE, !.raised = outcome]
                      /\ UNCHANGED row
                 ELSE IF value.kind = "None"
                 THEN /\ pc' = "raised"
                      /\ out' = [out EXCEPT !.done = TRUE, !.raised = "TypeError"]
                      /\ UNCHANGED row
                 ELSE /\ out' = [out EXCEPT !.val[row] = 0 - value.num,
                                            !.done = (row = Len(cone))]
                      /\ pc' = IF row = Len(cone) THEN "done" ELSE "primary"
                      /\ row' = IF row = Len(cone) THEN row ELSE row + 1
    /\ UNCHANGED <<obj1, obj2, cone, slackness, fn, ret, oracle, args, regionVars, ellVars,
                   storeVars>>

AlphaNext == GetAlpha

SpecAlpha == AlphaInit /\ [][AlphaNext]_vars

(***************************************************************************)
(* C17: the solve of get_alpha                                             *)
(***************************************************************************)
\* C17: a SolverError of the primary solve of get_alpha does not reach the
\* caller of get_alpha_vec: the solve is tried again with the fallback solver.
C17_AlphaSolverErrorIsRetried ==
    ~ (/\ fn = "get_alpha_vec"
       /\ out.done
       /\ out.raised = "SolverError"
       /\ last.solver = "default"
       /\ nsolves = 1)

(***************************************************************************)
(* C18 .. C20: the hyperrectangle utilities                                *)
(***************************************************************************)
\* C18: hyperrectangle_check_intersection gives the same answer when its two
\* boxes are exchanged.
C18_CheckIntersectionSymmetric ==
    fn = "hyperrectangle_check_intersection"
    => ret.val = hyperrectangle_check_intersection(obj2.lower, obj2.upper,
                                                   obj1.lower, obj1.upper)

\* C18's case: the test made on two boxes of which the first lies below the
\* second in one dimension and reaches above it in the other
C18_Witness ==
    /\ fn = "hyperrectangle_check_intersection"
    /\ obj1.upper[1] <= obj2.lower[1]
    /\ obj1.upper[2] > obj2.upper[2]
    /\ ret.val = FALSE

\* bit j of k (bit 0 the least significant)
BitOf(k, j) == (k \div (2 ^ j)) % 2

\* C19: hyperrectangle_get_vertices returns 2^D rows; row k (from 0) has
\* upper_i in coordinate i (from 0) iff bit D-1-i of k is 1 and lower_i
\* otherwise; when lower <= upper every row lies within the bounds.
C19_VerticesInBinaryCounterOrder ==
    (fn = "hyperrectangle_get_vertices" /\ out.done)
    => LET D == Len(args.lower)
           V == out.val
       IN  /\ Len(V) = 2 ^ D
           /\ \A k \in 0..(2 ^ D - 1) : \A i \in 0..(D - 1) :
                 V[k + 1][i + 1] = IF BitOf(k, D - 1 - i) = 1 THEN args.upper[i + 1]
                                                              ELSE args.lower[i + 1]
           /\ (\A i \in 1..D : args.lower[i] <= args.upper[i])
              => \A k \in 1..Len(V) : \A i \in 1..D :
                    args.lower[i] <= V[k][i] /\ V[k][i] <= args.upper[i]

\* C19's case: the vertices of a box of three dimensions with lower < upper;
\* the second row differs from the first in the last coordinate
C19_Witness ==
    /\ fn = "hyperrectangle_get_vertices"
    /\ out.done
    /\ Len(args.lower) = 3
    /\ \A i \in 1..3 : args.lower[i] < args.upper[i]
    /\ out.val[2] = <<args.lower[1], args.lower[2], args.upper[3]>>

\* the points the half-space form is tried on: the grid of the bounds and one
\* step outside it on either side
RegionPoints(D) == [1..D -> (-1)..(MaxPt + 1)]

\* C20: hyperrectangle_get_region_matrix returns M = [I; -I] and
\* b = [lower; -upper], and M x >= b holds in every row iff
\* lower <= x <= upper in every coordinate.
C20_RegionMatrixIsHalfSpaceForm ==
    (fn = "hyperrectangle_get_region_matrix" /\ out.done)
    => LET D == Len(args.lower)
           M == out.val.region_matrix
           b == out.val.region_boundary
       IN  /\ Len(M) = 2 * D
           /\ \A r \in 1..D : \A c \in 1..D :
                 /\ M[r][c] = (IF r = c THEN 1 ELSE 0)
                 /\ M[r + D][c] = (IF r = c THEN -1 ELSE 0)
           /\ b = args.lower \o [i \in 1..D |-> 0 - args.upper[i]]
           /\ \A x \in RegionPoints(D) :
                 (\A r \in 1..(2 * D) : MatVec(M, x)[r] >= b[r])
                 <=> (\A i \in 1..D : args.lower[i] <= x[i] /\ x[i] <= args.upper[i])

\* C20's case: the half-space form of a box of three dimensions with a side
\* of positive length and a side of length zero
C20_Witness ==
    /\ fn = "hyperrectangle_get_region_matrix"
    /\ out.done
    /\ Len(args.lower) = 3
    /\ args.lower[1] < args.upper[1]
    /\ args.lower[2] = args.upper[2]
    /\ Len(out.val.region_matrix) = 6

(***************************************************************************)
(* utils.py: get_smallmij, get_delta                                       *)
(***************************************************************************)
\* coordinates of the points of mu, in 0..MaxMu
MaxMu == 1
\* entries of alpha_vec, in 1..MaxAlphaVec
MaxAlphaVec == 2
\* number of points of mu
NumPoints == 3

\* A float that is a quotient of two integers is kept as the pair of them,
\* with a positive denominator; two floats compare by cross-multiplication.
Frac(n, d) == [num |-> n, den |-> d]
FracLeq(a, b) == a.num * b.den <= b.num * a.den
FracEq(a, b) == a.num * b.den = b.num * a.den
FracLt(a, b) == a.num * b.den < b.num * a.den

\* prod = np.matmul(W, vj - vi); prod[prod < 0] = 0
clipped_prod(vi, vj, W) ==
    LET prod == MatVec(W, VecSub(vj, vi))
    IN  [k \in 1..Len(W) |-> IF prod[k] < 0 THEN 0 ELSE prod[k]]

\* get_smallmij: (prod / alpha_vec).min().  prod has shape (n,); an alpha_vec
\* of shape (n,) divides it entry by entry, an alpha_vec of shape (n, 1) (what
\* get_alpha_vec returns) broadcasts against it to the n-by-n array of
\* prod[l] / alpha_vec[k], and min() runs over all of it
get_smallmij(vi, vj, W, alpha_vec) ==
    LET prod == clipped_prod(vi, vj, W)
        rows == 1..Len(W)
        quotients == IF alpha_vec.column
                     THEN {Frac(prod[l], alpha_vec.v[k]) : k \in rows, l \in rows}
                     ELSE {Frac(prod[k], alpha_vec.v[k]) : k \in rows}
    IN  CHOOSE q \in quotients : \A other \in quotients : FracLeq(q, other)

\* the inner loop of get_delta for point i, from point j on:
\* delta_values[i] = max(delta_values[i], mij), where max keeps its first
\* argument unless the second is greater
RECURSIVE delta_row(_, _, _, _, _, _)
delta_row(mu, W, alpha_vec, i, j, acc) ==
    IF j > Len(mu) THEN acc
    ELSE LET mij == get_smallmij(mu[i], mu[j], W, alpha_vec)
         IN  delta_row(mu, W, alpha_vec, i, j + 1, IF FracLt(acc, mij) THEN mij ELSE acc)

\* A plausible slip: the inner loop starts after point i.
get_delta_later_points(mu, W, alpha_vec) ==
    [i \in 1..Len(mu) |-> delta_row(mu, W, alpha_vec, i, i + 1, Frac(0, 1))]

\* get_delta: delta_values = np.zeros(num_points), then the two loops
get_delta(mu, W, alpha_vec) ==
    [i \in 1..Len(mu) |-> delta_row(mu, W, alpha_vec, i, 1, Frac(0, 1))]

MuPoints == [Dims -> 0..MaxMu]

\* alpha vectors for a cone: positive entries, flat or a column
AlphaVecs(W) == [column : BOOLEAN, v : [1..Len(W) -> 1..MaxAlphaVec]]

\* one call of get_smallmij or of get_delta, with its arguments
DeltaInit ==
    /\ \/ /\ fn = "get_smallmij"
          /\ \E W \in Cones :
                args \in [vi : MuPoints, vj : MuPoints, W : {W}, alpha_vec : AlphaVecs(W)]
       \/ /\ fn = "get_delta"
          /\ \E W \in Cones :
                args \in [mu : [1..NumPoints -> MuPoints], W : {W}, alpha_vec : AlphaVecs(W)]
    /\ out = NoOut
    /\ obj1 = None /\ obj2 = None /\ cone = None /\ slackness = None
    /\ ret = NoRet
    /\ intersect_iteratively = FALSE
    /\ lower = [i \in Dims |-> -BIG]
    /\ upper = [i \in Dims |-> BIG]
    /\ op = "init" /\ argL = None /\ argU = None /\ err = None /\ pre = TRUE
    /\ SolveIdle
    /\ EllIdle
    /\ StoreIdle

\* get_smallmij(vi, vj, W, alpha_vec)
CallGetSmallmij ==
    /\ fn = "get_smallmij"
    /\ ~ out.done
    /\ out' = Returns(get_smallmij(args.vi, args.vj, args.W, args.alpha_vec))
    /\ UNCHANGED <<args, regionVars, geomVars, solveVars, ellVars, storeVars>>

\* get_delta(mu, W, alpha_vec)
CallGetDelta ==
    /\ fn = "get_delta"
    /\ ~ out.done
    /\ out' = Returns(get_delta(args.mu, args.W, args.alpha_vec))
    /\ UNCHANGED <<args, regionVars, geomVars, solveVars, ellVars, storeVars>>

DeltaNext ==
    \/ CallGetSmallmij
    \/ CallGetDelta

SpecDelta == DeltaInit /\ [][DeltaNext]_vars

(***************************************************************************)
(* C21, C22: the gap statistics                                            *)
(***************************************************************************)
\* C21: every entry i of get_delta(mu, W, alpha_vec) is the greatest of the
\* get_smallmij(mu[i], mu[j], W, alpha_vec) over all j, j = i included: it
\* equals one of them, none of them exceeds it, and it is >= 0.
C21_DeltaIsMaxOfSmallmij ==
    (fn = "get_delta" /\ out.done)
    => \A i \in 1..Len(args.mu) :
          /\ \E j \in 1..Len(args.mu) :
                FracEq(out.val[i], get_smallmij(args.mu[i], args.mu[j], args.W, args.alpha_vec))
          /\ \A j \in 1..Len(args.mu) :
                FracLeq(get_smallmij(args.mu[i], args.mu[j], args.W, args.alpha_vec),
                        out.val[i])
          /\ out.val[i].num >= 0 /\ out.val[i].den > 0

\* C21's case: a point whose gap is positive and is set by a point before it
C21_Witness ==
    /\ fn = "get_delta"
    /\ out.done
    /\ out.val[3].num > 0
    /\ FracEq(out.val[3], get_smallmij(args.mu[3], args.mu[1], args.W, args.alpha_vec))
    /\ FracLt(get_smallmij(args.mu[3], args.mu[2], args.W, args.alpha_vec), out.val[3])

\* C22: get_smallmij returns the least over the cone rows k of
\* max(0, (W (vj - vi))_k) / alpha_vec_k; for positive alpha_vec it is >= 0,
\* and it is > 0 only if W (vj - vi) is positive in every row.
C22_SmallmijIsMinOfRowQuotients ==
    (fn = "get_smallmij" /\ out.done)
    => LET prod == MatVec(args.W, VecSub(args.vj, args.vi))
           rows == 1..Len(args.W)
           quotient(k) == Frac(IF prod[k] > 0 THEN prod[k] ELSE 0, args.alpha_vec.v[k])
       IN  /\ \E k \in rows : FracEq(out.val, quotient(k))
           /\ \A k \in rows : FracLeq(out.val, quotient(k))
           /\ out.val.num >= 0
           /\ out.val.num > 0 => \A k \in rows : prod[k] > 0

(***************************************************************************)
(* C23, C24: repeated and iterative updates                                *)
(***************************************************************************)
\* C23: after updates with scale >= 0 only, an update that repeats the one
\* before it (the same mean, covariance and scale, hence the same L and U)
\* leaves lower and upper as the first of the two left them, in both modes.
C23_UpdateIdempotent ==
    [][ ( /\ pre'
          /\ op = "update" /\ err = None
          /\ op' = "update" /\ err' = None
          /\ argL' = argL /\ argU' = argU )
        => (lower' = lower /\ upper' = upper) ]_vars

\* C24: in iterative mode, after an update with box [L, U] (all scales so far
\* >= 0) the region lies inside [L, U], and if the update found an overlap it
\* also lies inside the region held before the call.
C24_IterativeUpdateShrinksIntoBox ==
    [][ ( /\ intersect_iteratively
          /\ pre'
          /\ op' = "update" /\ err' = None )
        => /\ \A i \in Dims : argL'[i] <= lower'[i] /\ upper'[i] <= argU'[i]
           /\ hyperrectangle_check_intersection(lower, upper, argL', argU')
              => \A i \in Dims : lower[i] <= lower'[i] /\ upper'[i] <= upper[i] ]_vars

\* C24's case: an iterative update that found an overlap and cut the incoming
\* box on both sides
C24_Witness ==
    /\ intersect_iteratively
    /\ pre
    /\ op = "update" /\ err = None
    /\ argL[1] < lower[1]
    /\ upper[2] < argU[2]

(***************************************************************************)
(* empirical_mean_var.py: the sample store of EmpiricalMeanVarModel        *)
(***************************************************************************)
\* design_count in 1..MaxDesigns
MaxDesigns == 2
\* a sample row (output_dim = 1) is <<v>> with v in 0..MaxSample
MaxSample == 1
\* indices and Y_t have 0..MaxBatch entries
MaxBatch == 2
\* add_sample is called while the store holds at most MaxStored rows after it
MaxStored == 2

SampleRows == {<<v>> : v \in 0..MaxSample}

\* sequences of at most n entries of S
SeqUpTo(S, n) == UNION {[1..k -> S] : k \in 0..n}

\* indices handed to add_sample for a model of count designs: the designs,
\* the two indices past either end and the negative indices in between
IndexVals(count) == (0 - count - 1)..count

\* max(indices) of a sequence that is not empty
SeqMax(q) == CHOOSE x \in {q[k] : k \in 1..Len(q)} : \A k \in 1..Len(q) : q[k] <= x

\* self.design_samples[idx] on a Python list of n entries: the position (from
\* 1) it names, a negative idx counting from the end; 0 where it raises
\* IndexError
list_position(idx, n) ==
    IF idx >= 0 /\ idx < n THEN idx + 1
    ELSE IF idx < 0 /\ idx >= 0 - n THEN idx + n + 1
    ELSE 0

\* the loop of add_sample from the k-th pair of zip(indices, Y_t) on
RECURSIVE add_sample_loop(_, _, _, _)
add_sample_loop(samples, indices, Y_t, k) ==
    IF k > Len(indices) \/ k > Len(Y_t)
    THEN [design_samples |-> samples, raised |-> None]
    ELSE LET pos == list_position(indices[k], Len(samples))
         IN  IF pos = 0
             THEN [design_samples |-> samples, raised |-> "IndexError"]
             ELSE add_sample_loop([samples EXCEPT ![pos] = Append(@, Y_t[k])],
                                  indices, Y_t, k + 1)

\* EmpiricalMeanVarModel.add_sample: the two assertions (max of an empty
\* sequence raises ValueError), then the loop
add_sample(samples, count, indices, Y_t) ==
    IF Len(indices) # Len(Y_t)
    THEN [design_samples |-> samples, raised |-> "AssertionError"]
    ELSE IF Len(indices) = 0
    THEN [design_samples |-> samples, raised |-> "ValueError"]
    ELSE IF ~ (SeqMax(indices) < count)
    THEN [design_samples |-> samples, raised |-> "AssertionError"]
    ELSE add_sample_loop(samples, indices, Y_t, 1)

\* EmpiricalMeanVarModel.clear_data: one empty container per design
clear_data(count) == [i \in 1..count |-> <<>>]

\* the number of rows held in all containers from the i-th on
RECURSIVE StoredFrom(_, _)
StoredFrom(samples, i) ==
    IF i > Len(samples) THEN 0 ELSE Len(samples[i]) + StoredFrom(samples, i + 1)

\* EmpiricalMeanVarModel(..., design_count): __init__ ends with clear_data()
StoreInit ==
    /\ design_count \in 1..MaxDesigns
    /\ design_samples = clear_data(design_count)
    /\ fn = None
    /\ args = None
    /\ out = NoOut
    /\ obj1 = None /\ obj2 = None /\ cone = None /\ slackness = None
    /\ ret = NoRet
    /\ intersect_iteratively = FALSE
    /\ lower = [i \in Dims |-> -BIG]
    /\ upper = [i \in Dims |-> BIG]
    /\ op = "init" /\ argL = None /\ argU = None /\ err = None /\ pre = TRUE
    /\ SolveIdle
    /\ EllIdle

\* model.add_sample(indices, Y_t)
AddSample(indices, Y_t) ==
    /\ StoredFrom(design_samples, 1) + Len(indices) <= MaxStored
    /\ LET r == add_sample(design_samples, design_count, indices, Y_t)
       IN  /\ design_samples' = r.design_samples
           /\ out' = [done |-> TRUE, val |-> None, raised |-> r.raised]
    /\ fn' = "add_sample"
    /\ args' = [indices |-> indices, Y_t |-> Y_t]
    /\ UNCHANGED <<design_count, obj1, obj2, cone, slackness, ret, regionVars, solveVars,
                   ellVars>>

\* model.clear_data()
ClearData ==
    /\ design_samples' = clear_data(design_count)
    /\ fn' = "clear_data"
    /\ args' = None
    /\ out' = [done |-> TRUE, val |-> None, raised |-> None]
    /\ UNCHANGED <<design_count, obj1, obj2, cone, slackness, ret, regionVars, solveVars,
                   ellVars>>

StoreNext ==
    \/ \E indices \in SeqUpTo(IndexVals(design_count), MaxBatch),
          Y_t \in SeqUpTo(SampleRows, MaxBatch) : AddSample(indices, Y_t)
    \/ ClearData

SpecStore == StoreInit /\ [][StoreNext]_vars

(***************************************************************************)
(* C25, C26: the sample store                                              *)
(***************************************************************************)
\* the rows of Y_t passed for design index i, in order, from the k-th pair on
RECURSIVE SamplesFor(_, _, _, _)
SamplesFor(i, indices, Y_t, k) ==
    IF k > Len(indices) THEN <<>>
    ELSE (IF indices[k] = i THEN <<Y_t[k]>> ELSE <<>>) \o SamplesFor(i, indices, Y_t, k + 1)

\* C25: every add_sample call that returns appends to design_samples[i], in
\* order, exactly the rows it was passed for design index i (once per
\* occurrence of i) and changes nothing else, and clear_data leaves every
\* design without samples; so each container holds the rows passed for its
\* design since the last clear_data, in arrival order.
C25_StoreHoldsSamplesPerDesign ==
    [][ /\ (fn' = "add_sample" /\ out'.raised = None)
           => \A i \in 0..(design_count - 1) :
                 design_samples'[i + 1] =
                    design_samples[i + 1] \o SamplesFor(i, args'.indices, args'.Y_t, 1)
        /\ fn' = "clear_data"
           => \A i \in 0..(design_count - 1) : design_samples'[i + 1] = <<>> ]_vars

\* C26: an add_sample call with an index outside 0..design_count-1, or with
\* len(indices) # len(Y_t), raises AssertionError and leaves design_samples
\* as it was.
C26_AddSampleRejectsOutOfBounds ==
    [][ ( /\ fn' = "add_sample"
          /\ \/ Len(args'.indices) # Len(args'.Y_t)
             \/ \E k \in 1..Len(args'.indices) :
                   args'.indices[k] \notin 0..(design_count - 1) )
        => /\ out'.raised = "AssertionError"
           /\ design_samples' = design_samples ]_vars

=============================================================================
